---- MODULE Spec2Model ----
(***************************************************************************)
(* A model of Deaf_helper.py: the DeafHelperApp object, its startup        *)
(* (__init__, load_config, check_dependencies, build, start_camera), the   *)
(* UI callbacks that run on the main thread (update_camera, toggle_audio,  *)
(* set_language, stop_app) and the speech thread (audio_loop, play_tts,    *)
(* save_note).                                                             *)
(*                                                                         *)
(* Strings are TLA+ strings; Len, \o and SubSeq act on them as Python's    *)
(* len, + and slicing do.  The process log written through `logger` is     *)
(* output that no code path reads back; it is not part of the state.       *)
(***************************************************************************)
EXTENDS Integers, Sequences, FiniteSets, TLC

\* ------------------------------------------------------------------------
\* Bounds of the model

\* the number of recognition events (non-empty OCR texts and transcripts)
\* a behaviour may produce
MaxEvents == 2

\* ------------------------------------------------------------------------
\* Program constants

\* result_label.text[:200]
ResultsWindow == 200

\* DEFAULT_CONFIG
DEFAULT_CONFIG ==
    [camera_index |-> 0, language |-> "am-ET",
     notes_file |-> "notes.txt", tts_enabled |-> FALSE]

ConfigKeys == {"camera_index", "language", "notes_file", "tts_enabled"}

\* self.camera_index before any assignment: the attribute does not exist
Unset == -1

\* ------------------------------------------------------------------------
\* The configuration documents config.json may hold when the program starts.
\* A parsed document is a function from its keys to their values.

Missing == [kind |-> "missing"]
Corrupt == [kind |-> "corrupt"]
Document(d) == [kind |-> "json", doc |-> d]

EmptyDoc == Document([k \in {} |-> 0])

CustomDoc ==
    Document([k \in ConfigKeys \cup {"theme"} |->
        CASE k = "camera_index" -> 1
          [] k = "language" -> "en-US"
          [] k = "notes_file" -> "my_notes.txt"
          [] k = "tts_enabled" -> TRUE
          [] k = "theme" -> "dark"])

\* json.dump(DEFAULT_CONFIG, f, indent=4)
DefaultDoc == Document([k \in ConfigKeys |-> DEFAULT_CONFIG[k]])

InitialConfigFiles == {Missing, Corrupt, EmptyDoc, CustomDoc}

\* every document over the four keys and an unknown one: a key is absent
\* (0), has the default value (1) or another value (2)
DocumentKeys == ConfigKeys \cup {"theme"}

ValueOf(key, i) ==
    CASE key = "camera_index" -> IF i = 1 THEN 0 ELSE 1
      [] key = "language" -> IF i = 1 THEN "am-ET" ELSE "en-US"
      [] key = "notes_file" -> IF i = 1 THEN "notes.txt" ELSE "my_notes.txt"
      [] key = "tts_enabled" -> IF i = 1 THEN FALSE ELSE TRUE
      [] key = "theme" -> IF i = 1 THEN "light" ELSE "dark"

DocOf(c) == [key \in {k \in DocumentKeys : c[k] # 0} |-> ValueOf(key, c[key])]

AllDocuments == {Document(DocOf(c)) : c \in [DocumentKeys -> 0..2]}

\* config.get that ignores the document
ConfigGet_AlwaysDefault(d, key, default) == default

\* config.get(key, default)
ConfigGet(d, key, default) == IF key \in DOMAIN d THEN d[key] ELSE default

\* ------------------------------------------------------------------------
\* Inputs of the environment

\* what the wall clock may read, in seconds after some instant
Times == {0}

\* datetime.now().strftime("%Y-%m-%d %H:%M:%S")
strftime(t) == "2026-01-01 10:00:0" \o ToString(t)

\* the frames the camera may deliver, and what the OCR engine reads on each
Frames == {"wall", "sign"}
NoFrame == "none"

OcrOutput(frame) ==
    CASE frame = "wall" -> " \n"
      [] frame = "sign" -> " HELLO\n"

\* what the microphone may record: speech, or a sound that is no speech
Utterances == {"selam", "~"}

\* the transcripts the recognition service may return for a recording
Transcripts(a) == IF a = "~" THEN {""} ELSE {a}

\* str(e) of the exceptions the libraries and the file system raise
Messages == {"connection failed"}

\* str(e) of the exception of pytesseract when the language data is not
\* installed: longer than the window of the results surface
TesseractFailed ==
    "(1, 'Error opening data file /usr/share/tesseract-ocr/4.00/tessdata/" \o
    "amh.traineddata Please make sure the TESSDATA_PREFIX environment " \o
    "variable is set to your tessdata directory. Failed loading language " \o
    "amh Tesseract could not load any languages!')"

OcrMessages == {TesseractFailed}

\* ------------------------------------------------------------------------
\* Pure functions of the program

Min(a, b) == IF a < b THEN a ELSE b

\* s[:n]
\* a slice that keeps the whole string
Take_Whole(s, n) == s

Take(s, n) == SubSeq(s, 1, Min(n, Len(s)))

IsSpace(c) == c \in {" ", "\n", "\t", "\r"}

RECURSIVE LStrip(_)
LStrip(s) ==
    IF Len(s) > 0 /\ IsSpace(SubSeq(s, 1, 1))
    THEN LStrip(SubSeq(s, 2, Len(s)))
    ELSE s

RECURSIVE RStrip(_)
RStrip(s) ==
    IF Len(s) > 0 /\ IsSpace(SubSeq(s, Len(s), Len(s)))
    THEN RStrip(SubSeq(s, 1, Len(s) - 1))
    ELSE s

\* str.strip()
Strip(s) == RStrip(LStrip(s))

\* "amh" if self.language == "am-ET" else "eng"
LangCode(lang) == IF lang = "am-ET" THEN "amh" ELSE "eng"

\* "am" if self.language == "am-ET" else "en"
TtsLang(lang) == IF lang = "am-ET" THEN "am" ELSE "en"

\* "am-ET" if text == "Amharic" else "en-US"
SpinnerLanguage(text) == IF text = "Amharic" THEN "am-ET" ELSE "en-US"

\* f"[{timestamp}] {source}: {text}\n"
NoteLine(t, source, text) ==
    "[" \o strftime(t) \o "] " \o source \o ": " \o text \o "\n"

\* f"Camera Text:\n{text}\n\n{prev}" and f"Audio Text:\n{text}\n\n{prev}",
\* prev being self.result_label.text[:200]
Block(source, text) == source \o " Text:\n" \o text

\* a slip in the f-string: the new block after the previous content
Prepend_Appends(source, text, prev) == prev \o "\n\n" \o Block(source, text)

Prepend(source, text, prev) == Block(source, text) \o "\n\n" \o prev

\* f"tts_{int(time.time())}.mp3"
TtsFile(t) == "tts_" \o ToString(1767261600 + t) \o ".mp3"

\* a widget that build has not created yet, and one it has
NoWidget == [exists |-> FALSE, text |-> ""]
Widget(t) == [exists |-> TRUE, text |-> t]

\* ------------------------------------------------------------------------
\* State

VARIABLES
    pc,               \* where the main thread is
    crash_site,       \* the function an unhandled exception escaped from
    configFile,       \* config.json on disk
    language,         \* self.language
    notes_file,       \* self.notes_file
    tts_enabled,      \* self.tts_enabled
    camera_index,     \* self.camera_index
    camera,           \* self.camera
    running,          \* self.running
    language_spinner, \* self.language_spinner.text ("" before build)
    result_label,     \* self.result_label
    audio_btn,        \* self.audio_btn
    texture,          \* self.camera_image.texture: the frame on display
    notes,            \* the lines of the notes file
    frame,            \* update_camera: the frame of this tick
    ctext,            \* update_camera: text
    cprev,            \* update_camera: self.result_label.text[:200] as read
    lang_code,        \* update_camera: lang_code
    apc,              \* where the speech thread is
    audio,            \* audio_loop: audio
    atext,            \* audio_loop: text
    aprev,            \* audio_loop: self.result_label.text[:200] as read
    req_lang,         \* language of the recognize_google call
    aexc,             \* the exception audio_loop is handling
    tts_lang,         \* play_tts: lang of the gTTS call
    audio_file,       \* play_tts: audio_file
    tmp_files,        \* the tts_*.mp3 files on disk
    events            \* recognition events produced so far

config == <<configFile, language, notes_file, tts_enabled, camera_index>>
widgets == <<language_spinner, result_label, audio_btn, texture>>
camLocals == <<frame, ctext, cprev, lang_code>>
audioLocals == <<audio, atext, aprev, req_lang, aexc>>
ttsState == <<tts_lang, audio_file, tmp_files>>

vars == <<pc, crash_site, config, camera, running, widgets, notes, camLocals,
          apc, audioLocals, ttsState, events>>

NoExc == [kind |-> "none", msg |-> ""]
Exc(k, m) == [kind |-> k, msg |-> m]

\* DeafHelperApp.__init__ up to the call of load_config, with config.json
\* one of files
InitWith(files) ==
    /\ pc = "load_config"
    /\ crash_site = "none"
    /\ configFile \in files
    /\ language = DEFAULT_CONFIG.language
    /\ notes_file = DEFAULT_CONFIG.notes_file
    /\ tts_enabled = DEFAULT_CONFIG.tts_enabled
    /\ camera_index = Unset
    /\ camera = "None"
    /\ running = FALSE
    /\ language_spinner = ""
    /\ result_label = NoWidget
    /\ audio_btn = NoWidget
    /\ texture = NoFrame
    /\ notes = <<>>
    /\ frame = NoFrame
    /\ ctext = ""
    /\ cprev = ""
    /\ lang_code = ""
    /\ apc = "none"
    /\ audio = ""
    /\ atext = ""
    /\ aprev = ""
    /\ req_lang = ""
    /\ aexc = NoExc
    /\ tts_lang = ""
    /\ audio_file = ""
    /\ tmp_files = {}
    /\ events = 0

Init == InitWith(InitialConfigFiles)

\* ------------------------------------------------------------------------
\* Startup

\* An exception handler that assigns self.result_label.text before build has
\* created the widget raises AttributeError, which nothing catches: the
\* process ends.
Crash(site) ==
    /\ pc' = "crashed"
    /\ crash_site' = site

\* self.result_label.text = msg, in a handler on the main thread
ShowError(site, msg) ==
    IF result_label.exists
    THEN /\ result_label' = Widget(msg)
         /\ UNCHANGED <<pc, crash_site>>
    ELSE /\ Crash(site)
         /\ UNCHANGED result_label

\* load_config, the branch of an existing file that json.load parses
LoadExisting ==
    /\ pc = "load_config"
    /\ configFile.kind = "json"
    /\ language' = ConfigGet(configFile.doc, "language", DEFAULT_CONFIG.language)
    /\ notes_file' = ConfigGet(configFile.doc, "notes_file", DEFAULT_CONFIG.notes_file)
    /\ tts_enabled' = ConfigGet(configFile.doc, "tts_enabled", DEFAULT_CONFIG.tts_enabled)
    /\ camera_index' = ConfigGet(configFile.doc, "camera_index", DEFAULT_CONFIG.camera_index)
    /\ pc' = "check_dependencies"
    /\ UNCHANGED <<crash_site, configFile, camera, running, widgets, notes,
                   camLocals, apc, audioLocals, ttsState, events>>

\* load_config, the branch of an existing file that cannot be read or parsed:
\* the handler assigns self.result_label.text
LoadUnreadable ==
    /\ pc = "load_config"
    /\ configFile.kind = "corrupt"
    /\ Crash("load_config")
    /\ UNCHANGED <<config, camera, running, widgets, notes, camLocals, apc,
                   audioLocals, ttsState, events>>

\* load_config, the branch of a missing file: the defaults are written out
\* and no attribute is assigned; the write may fail
LoadMissing ==
    /\ pc = "load_config"
    /\ configFile.kind = "missing"
    /\ \E written \in BOOLEAN :
          IF written
          THEN /\ configFile' = DefaultDoc
               /\ pc' = "check_dependencies"
               /\ UNCHANGED crash_site
          ELSE /\ Crash("load_config")
               /\ UNCHANGED configFile
    /\ UNCHANGED <<language, notes_file, tts_enabled, camera_index, camera,
                   running, widgets, notes, camLocals, apc, audioLocals,
                   ttsState, events>>

load_config == LoadExisting \/ LoadUnreadable \/ LoadMissing

\* check_dependencies: every module imports, or one does not and the handler
\* assigns self.result_label.text
check_dependencies ==
    /\ pc = "check_dependencies"
    /\ \E importable \in BOOLEAN :
          IF importable
          THEN /\ pc' = "build"
               /\ UNCHANGED crash_site
          ELSE Crash("check_dependencies")
    /\ UNCHANGED <<config, camera, running, widgets, notes, camLocals, apc,
                   audioLocals, ttsState, events>>

\* build, up to the call of start_camera
BuildBegin ==
    /\ pc = "build"
    /\ running' = TRUE
    /\ language_spinner' = "Amharic"
    /\ pc' = "start_camera"
    /\ UNCHANGED <<crash_site, config, camera, result_label, audio_btn,
                   texture, notes, camLocals, apc, audioLocals, ttsState,
                   events>>

\* start_camera: self.camera_index may not exist (AttributeError before
\* self.camera is assigned); the device may not open (self.camera is then a
\* capture object that is not opened); both handlers assign
\* self.result_label.text
start_camera ==
    /\ pc = "start_camera"
    /\ IF camera_index = Unset
       THEN /\ ShowError("start_camera", "Camera Error: no attribute camera_index")
            /\ UNCHANGED camera
       ELSE \E opened \in BOOLEAN :
               IF opened
               THEN /\ camera' = "open"
                    /\ pc' = "build_widgets"
                    /\ UNCHANGED <<crash_site, result_label>>
               ELSE /\ camera' = "unopened"
                    /\ ShowError("start_camera", "Camera Error: Camera not available")
    /\ UNCHANGED <<config, running, language_spinner, audio_btn, texture,
                   notes, camLocals, apc, audioLocals, ttsState, events>>

\* build, after start_camera: the result surface, the buttons, the timer and
\* the speech thread
BuildFinish ==
    /\ pc = "build_widgets"
    /\ result_label' = Widget("")
    /\ audio_btn' = Widget("Start Audio")
    /\ apc' = "check"
    /\ pc' = "idle"
    /\ UNCHANGED <<crash_site, config, camera, running, language_spinner,
                   texture, notes, camLocals, audioLocals, ttsState, events>>

\* ------------------------------------------------------------------------
\* The output sink

\* save_note with the file opened in mode "w": the line replaces the file
save_note_Truncates(source, text) ==
    \E t \in Times, saved \in BOOLEAN :
       IF saved
       THEN /\ notes' = <<NoteLine(t, source, text)>>
            /\ UNCHANGED result_label
       ELSE /\ \E m \in Messages :
                  result_label' = Widget("Note Save Error: " \o m)
            /\ UNCHANGED notes

\* save_note(source, text): one line is appended to the notes file, or the
\* open or the write fails and the handler assigns self.result_label.text
save_note(source, text) ==
    \E t \in Times, saved \in BOOLEAN :
       IF saved
       THEN /\ notes' = Append(notes, NoteLine(t, source, text))
            /\ UNCHANGED result_label
       ELSE /\ \E m \in Messages :
                  result_label' = Widget("Note Save Error: " \o m)
            /\ UNCHANGED notes

\* ------------------------------------------------------------------------
\* The callbacks of the main thread.  Kivy runs one callback at a time, so a
\* callback starts only when the main thread is idle; the speech thread may
\* run between any two steps of a callback.

MainIdle == pc = "idle"

\* Clock.schedule_interval(self.update_camera, 1.0 / 30.0) fires and
\* update_camera starts: if not self.running or not self.camera: return
ClockTick ==
    /\ MainIdle
    /\ pc' = IF ~running \/ camera = "None" THEN "idle" ELSE "cam_read"
    /\ UNCHANGED <<crash_site, config, camera, running, widgets, notes,
                   camLocals, apc, audioLocals, ttsState, events>>

\* the locals of update_camera, dropped when the callback returns
CallbackReturns ==
    /\ pc' = "idle"
    /\ frame' = NoFrame
    /\ ctext' = ""
    /\ cprev' = ""
    /\ lang_code' = ""

\* lines 178-186: ret, frame = self.camera.read(), if not ret: return;
\* lang_code; text = pytesseract.image_to_string(frame, lang=lang_code)
\* .strip(); an exception of the engine is shown and ends the callback
UpdateCameraExtract ==
    /\ pc = "cam_read"
    /\ \/ /\ camera = "open"
          /\ \E f \in Frames :
                /\ Strip(OcrOutput(f)) # "" => events < MaxEvents
                /\ frame' = f
                /\ lang_code' = LangCode(language)
                /\ ctext' = Strip(OcrOutput(f))
          /\ IF ctext' # ""
             THEN /\ events' = events + 1
                  /\ pc' = "cam_save"
             ELSE /\ pc' = "cam_render"
                  /\ UNCHANGED events
          /\ UNCHANGED <<cprev, result_label>>
       \/ /\ CallbackReturns
          /\ UNCHANGED <<result_label, events>>
       \/ /\ camera = "open"
          /\ \E m \in OcrMessages :
                result_label' = Widget("Camera Error: " \o m)
          /\ CallbackReturns
          /\ UNCHANGED events
    /\ UNCHANGED <<crash_site, config, camera, running, language_spinner,
                   audio_btn, texture, notes, apc, audioLocals, ttsState>>

\* self.save_note("Camera", text)
UpdateCameraSave ==
    /\ pc = "cam_save"
    /\ save_note("Camera", ctext)
    /\ pc' = "cam_show_read"
    /\ UNCHANGED <<crash_site, config, camera, running, language_spinner,
                   audio_btn, texture, camLocals, apc, audioLocals, ttsState,
                   events>>

\* the right-hand side of line 188 reads self.result_label.text[:200]
UpdateCameraShowRead ==
    /\ pc = "cam_show_read"
    /\ cprev' = Take(result_label.text, ResultsWindow)
    /\ pc' = "cam_show_write"
    /\ UNCHANGED <<crash_site, config, camera, running, widgets, notes,
                   frame, ctext, lang_code, apc, audioLocals, ttsState, events>>

\* line 188 assigns self.result_label.text
UpdateCameraShowWrite ==
    /\ pc = "cam_show_write"
    /\ result_label' = Widget(Prepend("Camera", ctext, cprev))
    /\ pc' = "cam_render"
    /\ UNCHANGED <<crash_site, config, camera, running, language_spinner,
                   audio_btn, texture, notes, camLocals, apc, audioLocals,
                   ttsState, events>>

\* update_camera with the rendering inside if text: a frame with no text
\* leaves the displayed image as it was
UpdateCameraRender_OnlyWithText ==
    /\ pc = "cam_render"
    /\ texture' = IF ctext # "" THEN frame ELSE texture
    /\ CallbackReturns
    /\ UNCHANGED <<crash_site, config, camera, running, language_spinner,
                   result_label, audio_btn, notes, apc, audioLocals, ttsState,
                   events>>

\* lines 191-195: the frame becomes the texture of self.camera_image
UpdateCameraRender ==
    /\ pc = "cam_render"
    /\ texture' = frame
    /\ CallbackReturns
    /\ UNCHANGED <<crash_site, config, camera, running, language_spinner,
                   result_label, audio_btn, notes, apc, audioLocals, ttsState,
                   events>>

update_camera ==
    \/ ClockTick
    \/ UpdateCameraExtract
    \/ UpdateCameraSave
    \/ UpdateCameraShowRead
    \/ UpdateCameraShowWrite
    \/ UpdateCameraRender

\* toggle_audio: the press of self.audio_btn
toggle_audio ==
    /\ MainIdle
    /\ IF audio_btn.text = " Start Audio"
       THEN /\ audio_btn' = Widget(" Stop Audio")
            /\ running' = TRUE
       ELSE /\ audio_btn' = Widget(" Start Audio")
            /\ running' = FALSE
    /\ UNCHANGED <<pc, crash_site, config, camera, language_spinner,
                   result_label, texture, notes, camLocals, apc, audioLocals,
                   ttsState, events>>

\* set_language: bound to the spinner's text, so called when the text changes
set_language(text) ==
    /\ MainIdle
    /\ text # language_spinner
    /\ language_spinner' = text
    /\ language' = SpinnerLanguage(text)
    /\ UNCHANGED <<pc, crash_site, configFile, notes_file, tts_enabled,
                   camera_index, camera, running, result_label, audio_btn,
                   texture, notes, camLocals, apc, audioLocals, ttsState,
                   events>>

\* stop_app: the press of self.exit_btn sets self.running = False, releases
\* the camera and stops the application.  The process ends and the daemon
\* thread with it: what is left is what is on disk.
stop_app ==
    /\ MainIdle
    /\ pc' = "stopped"
    /\ running' = FALSE
    /\ camera' = IF camera = "None" THEN camera ELSE "released"
    /\ language_spinner' = ""
    /\ result_label' = NoWidget
    /\ audio_btn' = NoWidget
    /\ texture' = NoFrame
    /\ apc' = "ended"
    /\ audio' = ""
    /\ atext' = ""
    /\ aprev' = ""
    /\ req_lang' = ""
    /\ aexc' = NoExc
    /\ tts_lang' = ""
    /\ audio_file' = ""
    /\ UNCHANGED <<crash_site, config, notes, camLocals, tmp_files, events>>

\* ------------------------------------------------------------------------
\* The speech thread: audio_loop, a daemon thread that lives as long as the
\* process

AudioAlive == apc \notin {"none", "ended"}

\* the locals of one iteration, dropped when the loop starts over
LoopAgain ==
    /\ apc' = "check"
    /\ audio' = ""
    /\ atext' = ""
    /\ aprev' = ""
    /\ req_lang' = ""
    /\ aexc' = NoExc

\* while True: if not self.running: time.sleep(0.1); continue.  Past the
\* check the thread opens the microphone, adjusts for ambient noise and
\* blocks in listen.
AudioCheck ==
    /\ AudioAlive
    /\ apc = "check"
    /\ apc' = IF running THEN "listen" ELSE "check"
    /\ UNCHANGED <<pc, crash_site, config, camera, running, widgets, notes,
                   camLocals, audioLocals, ttsState, events>>

\* audio_loop with a second check of the flag after listen: a recording made
\* while the flag went false is thrown away
AudioListen_DropsWhenStopped ==
    /\ AudioAlive
    /\ apc = "listen"
    /\ \/ /\ running
          /\ \E a \in Utterances : audio' = a
          /\ req_lang' = language
          /\ apc' = "recognizing"
          /\ UNCHANGED aexc
       \/ /\ ~running
          /\ apc' = "check"
          /\ UNCHANGED <<audio, req_lang, aexc>>
       \/ /\ \E m \in Messages : aexc' = Exc("Exception", m)
          /\ apc' = "except"
          /\ UNCHANGED <<audio, req_lang>>
    /\ UNCHANGED <<pc, crash_site, config, camera, running, widgets, notes,
                   camLocals, atext, aprev, ttsState, events>>

\* audio_loop with the language read once, from the configuration, instead
\* of at every call
AudioListen_StaleLanguage ==
    /\ AudioAlive
    /\ apc = "listen"
    /\ \/ /\ \E a \in Utterances : audio' = a
          /\ req_lang' = ConfigGet(configFile.doc, "language", DEFAULT_CONFIG.language)
          /\ apc' = "recognizing"
          /\ UNCHANGED aexc
       \/ /\ \E m \in Messages : aexc' = Exc("Exception", m)
          /\ apc' = "except"
          /\ UNCHANGED <<audio, req_lang>>
    /\ UNCHANGED <<pc, crash_site, config, camera, running, widgets, notes,
                   camLocals, atext, aprev, ttsState, events>>

\* lines 221-224: the microphone cannot be opened or listen times out
\* (an exception that the last except clause catches), or listen returns a
\* recording and recognize_google(audio, language=self.language) is called:
\* the argument is evaluated and the request sent
AudioListen ==
    /\ AudioAlive
    /\ apc = "listen"
    /\ \/ /\ \E a \in Utterances : audio' = a
          /\ req_lang' = language
          /\ apc' = "recognizing"
          /\ UNCHANGED aexc
       \/ /\ \E m \in Messages : aexc' = Exc("Exception", m)
          /\ apc' = "except"
          /\ UNCHANGED <<audio, req_lang>>
    /\ UNCHANGED <<pc, crash_site, config, camera, running, widgets, notes,
                   camLocals, atext, aprev, ttsState, events>>

\* recognize_google returns a transcript or raises; an empty transcript goes
\* straight to line 230 and the next iteration
AudioRecognizeReturn ==
    /\ AudioAlive
    /\ apc = "recognizing"
    /\ \/ /\ \E t \in Transcripts(audio) :
                /\ t # "" => events < MaxEvents
                /\ IF t # ""
                   THEN /\ atext' = t
                        /\ events' = events + 1
                        /\ apc' = "save"
                        /\ UNCHANGED <<audio, aprev, req_lang, aexc>>
                   ELSE /\ LoopAgain
                        /\ UNCHANGED events
       \/ /\ apc' = "except"
          /\ aexc' = Exc("UnknownValueError", "")
          /\ UNCHANGED <<audio, atext, aprev, req_lang, events>>
       \/ /\ apc' = "except"
          /\ \E m \in Messages : aexc' = Exc("RequestError", m)
          /\ UNCHANGED <<audio, atext, aprev, req_lang, events>>
    /\ UNCHANGED <<pc, crash_site, config, camera, running, widgets, notes,
                   camLocals, ttsState>>

\* self.save_note("Audio", text)
AudioSave ==
    /\ AudioAlive
    /\ apc = "save"
    /\ save_note("Audio", atext)
    /\ apc' = "show_read"
    /\ UNCHANGED <<pc, crash_site, config, camera, running, language_spinner,
                   audio_btn, texture, camLocals, audioLocals, ttsState,
                   events>>

\* the right-hand side of line 227 reads self.result_label.text[:200]
AudioShowRead ==
    /\ AudioAlive
    /\ apc = "show_read"
    /\ aprev' = Take(result_label.text, ResultsWindow)
    /\ apc' = "show_write"
    /\ UNCHANGED <<pc, crash_site, config, camera, running, widgets, notes,
                   camLocals, audio, atext, req_lang, aexc, ttsState, events>>

\* audio_loop calling play_tts without the test of self.tts_enabled
AudioShowWrite_AlwaysSpeaks ==
    /\ AudioAlive
    /\ apc = "show_write"
    /\ result_label' = Widget(Prepend("Audio", atext, aprev))
    /\ apc' = "tts"
    /\ UNCHANGED audioLocals
    /\ UNCHANGED <<pc, crash_site, config, camera, running, language_spinner,
                   audio_btn, texture, notes, camLocals, ttsState, events>>

\* line 227 assigns self.result_label.text; if self.tts_enabled: play_tts
AudioShowWrite ==
    /\ AudioAlive
    /\ apc = "show_write"
    /\ result_label' = Widget(Prepend("Audio", atext, aprev))
    /\ IF tts_enabled
       THEN /\ apc' = "tts"
            /\ UNCHANGED audioLocals
       ELSE LoopAgain
    /\ UNCHANGED <<pc, crash_site, config, camera, running, language_spinner,
                   audio_btn, texture, notes, camLocals, ttsState, events>>

\* audio_loop without its last except clause: an exception that is neither
\* UnknownValueError nor RequestError ends the thread
AudioExcept_NoCatchAll ==
    /\ AudioAlive
    /\ apc = "except"
    /\ IF aexc.kind = "Exception"
       THEN /\ apc' = "dead"
            /\ UNCHANGED <<result_label, audioLocals>>
       ELSE /\ IF aexc.kind = "UnknownValueError"
               THEN UNCHANGED result_label
               ELSE result_label' = Widget("Audio Error: " \o aexc.msg)
            /\ LoopAgain
    /\ UNCHANGED <<pc, crash_site, config, camera, running, language_spinner,
                   audio_btn, texture, notes, camLocals, ttsState, events>>

\* audio_loop with RequestError handled like UnknownValueError: nothing is
\* shown
AudioExcept_SilentRequestError ==
    /\ AudioAlive
    /\ apc = "except"
    /\ IF aexc.kind \in {"UnknownValueError", "RequestError"}
       THEN UNCHANGED result_label
       ELSE result_label' = Widget("Audio Error: " \o aexc.msg)
    /\ LoopAgain
    /\ UNCHANGED <<pc, crash_site, config, camera, running, language_spinner,
                   audio_btn, texture, notes, camLocals, ttsState, events>>

\* audio_loop with UnknownValueError handled like the other exceptions: an
\* "Audio Error" message is shown
AudioExcept_ShowsNotUnderstood ==
    /\ AudioAlive
    /\ apc = "except"
    /\ result_label' = Widget("Audio Error: " \o aexc.msg)
    /\ LoopAgain
    /\ UNCHANGED <<pc, crash_site, config, camera, running, language_spinner,
                   audio_btn, texture, notes, camLocals, ttsState, events>>

\* the except clauses of audio_loop
AudioExcept ==
    /\ AudioAlive
    /\ apc = "except"
    /\ IF aexc.kind = "UnknownValueError"
       THEN UNCHANGED result_label
       ELSE result_label' = Widget("Audio Error: " \o aexc.msg)
    /\ LoopAgain
    /\ UNCHANGED <<pc, crash_site, config, camera, running, language_spinner,
                   audio_btn, texture, notes, camLocals, ttsState, events>>

\* play_tts returns to audio_loop, which logs and starts over
TtsReturns ==
    /\ tts_lang' = ""
    /\ audio_file' = ""
    /\ LoopAgain

\* play_tts, lines 243-245: gTTS(text, lang), audio_file, tts.save; save
\* creates the file and then fetches the audio, so a failure may leave the
\* file behind; the handler of play_tts swallows the exception
TtsSynthesize ==
    /\ AudioAlive
    /\ apc = "tts"
    /\ \E t \in Times :
          \/ /\ tts_lang' = TtsLang(language)
             /\ audio_file' = TtsFile(t)
             /\ tmp_files' = tmp_files \cup {TtsFile(t)}
             /\ apc' = "tts_play"
             /\ UNCHANGED audioLocals
          \/ /\ tmp_files' \in {tmp_files, tmp_files \cup {TtsFile(t)}}
             /\ TtsReturns
    /\ UNCHANGED <<pc, crash_site, config, camera, running, widgets, notes,
                   camLocals, events>>

\* play_tts, lines 246-251: the mixer loads and plays the file to its end, or
\* raises and the handler swallows the exception
TtsPlay ==
    /\ AudioAlive
    /\ apc = "tts_play"
    /\ \/ /\ apc' = "tts_remove"
          /\ UNCHANGED <<audioLocals, tts_lang, audio_file>>
       \/ TtsReturns
    /\ UNCHANGED <<pc, crash_site, config, camera, running, widgets, notes,
                   camLocals, tmp_files, events>>

\* play_tts, lines 252-253: if os.path.exists(audio_file): os.remove
TtsRemove ==
    /\ AudioAlive
    /\ apc = "tts_remove"
    /\ tmp_files' = tmp_files \ {audio_file}
    /\ TtsReturns
    /\ UNCHANGED <<pc, crash_site, config, camera, running, widgets, notes,
                   camLocals, events>>

play_tts == TtsSynthesize \/ TtsPlay \/ TtsRemove

audio_loop ==
    \/ AudioCheck
    \/ AudioListen
    \/ AudioRecognizeReturn
    \/ AudioSave
    \/ AudioShowRead
    \/ AudioShowWrite
    \/ AudioExcept
    \/ play_tts

\* ------------------------------------------------------------------------
\* The specification

Next ==
    \/ load_config
    \/ check_dependencies
    \/ BuildBegin
    \/ start_camera
    \/ BuildFinish
    \/ update_camera
    \/ toggle_audio
    \/ \E text \in {"Amharic", "English"} : set_language(text)
    \/ stop_app
    \/ audio_loop

Spec == Init /\ [][Next]_vars

\* The speech thread is an operating-system thread and each of its blocking
\* calls returns (listen has a timeout, playback ends): it keeps taking steps.
FairSpec ==
    /\ InitWith({Missing, Corrupt, CustomDoc})
    /\ [][Next]_vars
    /\ WF_vars(audio_loop)

\* DeafHelperApp.__init__ over every configuration file: the constructor's
\* assignments and its call of load_config
LoadSpec ==
    /\ InitWith(AllDocuments \cup {Missing, Corrupt})
    /\ [][load_config]_vars

\* ------------------------------------------------------------------------
\* Claims

\* a step of the speech thread from position p (the end of the process is
\* no step of the thread)
AudioStepFrom(p) == apc = p /\ apc' \notin {p, "ended"}

\* the steps in which a pipeline records an event
CameraSaves == pc = "cam_save" /\ pc' # pc
AudioSaves == AudioStepFrom("save")
CameraShows == pc = "cam_show_write" /\ pc' # pc
AudioShows == AudioStepFrom("show_write")

\* a press of the audio button
TogglePressed == audio_btn.exists /\ audio_btn'.exists /\ audio_btn' # audio_btn

\* a switch of the language selector
LanguageSwitched ==
    language_spinner # "" /\ language_spinner' # "" /\ language_spinner' # language_spinner

OneLineAppended(source, text) ==
    \E t \in Times : notes' = Append(notes, NoteLine(t, source, text))

NoLineAppended ==
    /\ notes' = notes
    /\ \E m \in Messages : result_label' = Widget("Note Save Error: " \o m)

\* the leading block of the results surface is the label of source, then text
NewestBlock(label, source, text) ==
    /\ Len(label.text) >= Len(source) + 7 + Len(text)
    /\ SubSeq(label.text, 1, Len(source)) = source
    /\ SubSeq(label.text, Len(source) + 1, Len(source) + 7) = " Text:\n"
    /\ SubSeq(label.text, Len(source) + 8, Len(source) + 7 + Len(text)) = text

\* C1 as stated: every recognition event of either pipeline appends exactly
\* one line for it to the notes file (and no other step appends any), and
\* right after the event's update of the results surface the leading block
\* is the event's source label followed by its text.
C1_ExactlyOneLine ==
    [][/\ CameraSaves => OneLineAppended("Camera", ctext)
       /\ AudioSaves => OneLineAppended("Audio", atext)
       /\ notes' # notes => CameraSaves \/ AudioSaves
       /\ CameraShows => NewestBlock(result_label', "Camera", ctext)
       /\ AudioShows => NewestBlock(result_label', "Audio", atext)]_vars

\* C1 amended: every recognition event appends at most one line: exactly one
\* when the append succeeds, none when opening or writing the notes file
\* fails, and then a Note Save Error message is shown; no other step appends
\* a line; right after the event's update of the results surface the leading
\* block is the event's source label followed by its text.
C1_OneLineUnlessWriteFails ==
    [][/\ CameraSaves => OneLineAppended("Camera", ctext) \/ NoLineAppended
       /\ AudioSaves => OneLineAppended("Audio", atext) \/ NoLineAppended
       /\ notes' # notes => CameraSaves \/ AudioSaves
       /\ CameraShows => NewestBlock(result_label', "Camera", ctext)
       /\ AudioShows => NewestBlock(result_label', "Audio", atext)]_vars

\* a Camera event whose line is in the notes file and whose block leads the
\* results surface
C1_Witness ==
    /\ pc = "cam_render"
    /\ ctext = "HELLO"
    /\ Len(notes) > 0
    /\ notes[Len(notes)] = NoteLine(0, "Camera", "HELLO")
    /\ NewestBlock(result_label, "Camera", "HELLO")

\* C2 as stated: the running flag gates the speech pipeline only: whenever
\* the main thread is idle and the camera is open, the timer tick goes on to
\* acquire a frame, whatever the value of the flag.
C2_OcrIgnoresRunningFlag ==
    (pc = "idle" /\ camera = "open") => ENABLED (ClockTick /\ pc' = "cam_read")

StartForm(text) == text \in {"Start Audio", " Start Audio"}
StopForm(text) == text = " Stop Audio"

\* C3 as stated: every press of the audio button inverts the running flag
\* and switches the button's label between its Start and its Stop form.
C3_ToggleFlipsFlagAndLabel ==
    [][TogglePressed =>
          /\ running' = ~running
          /\ StartForm(audio_btn.text) <=> StopForm(audio_btn'.text)
          /\ StopForm(audio_btn.text) <=> StartForm(audio_btn'.text)]_vars

\* C4 as stated: when the camera does not open at startup the application
\* goes on: the process does not end, and no frame is ever shown.
C4_CameraFailureNotFatal ==
    camera = "unopened" => (pc # "crashed" /\ texture = NoFrame)

\* C5 as stated: load_config on a missing file writes the default document
\* and leaves every field of the configuration at its default.
C5_MissingConfigGivesDefaults ==
    [][(configFile = Missing /\ configFile' # Missing) =>
          /\ configFile' = DefaultDoc
          /\ camera_index' = DEFAULT_CONFIG.camera_index
          /\ language' = DEFAULT_CONFIG.language
          /\ notes_file' = DEFAULT_CONFIG.notes_file
          /\ tts_enabled' = DEFAULT_CONFIG.tts_enabled]_vars

\* C6 as stated: a configuration file that cannot be read or parsed is not
\* fatal: the process does not end and the configuration is the default one.
C6_UnreadableConfigNotFatal ==
    (configFile = Corrupt /\ pc # "load_config") =>
        /\ pc # "crashed"
        /\ camera_index = DEFAULT_CONFIG.camera_index
        /\ language = DEFAULT_CONFIG.language
        /\ notes_file = DEFAULT_CONFIG.notes_file
        /\ tts_enabled = DEFAULT_CONFIG.tts_enabled

\* C7: a change of the running flag while the speech thread is in listen
\* leaves the thread and its locals alone; from listen the thread goes on to
\* recognition (or to an except clause), and a transcript goes on through
\* save_note and the update of the results surface whatever the flag; a
\* listen attempt begins only from the check of the flag, with the flag true.
C7_ToggleDuringListen ==
    [][/\ (TogglePressed /\ apc = "listen") =>
             (running' # running /\ apc' = apc /\ UNCHANGED audioLocals)
       /\ AudioStepFrom("listen") => apc' \in {"recognizing", "except"}
       /\ (AudioStepFrom("recognizing") /\ aexc' = NoExc) =>
             \E t \in Transcripts(audio) :
                IF t = "" THEN apc' = "check" ELSE apc' = "save" /\ atext' = t
       /\ AudioSaves =>
             /\ apc' = "show_read"
             /\ OneLineAppended("Audio", atext) \/ NoLineAppended
       /\ AudioStepFrom("show_read") => apc' = "show_write"
       /\ AudioShows => NewestBlock(result_label', "Audio", atext)
       /\ (apc # "listen" /\ apc' = "listen") => (apc = "check" /\ running)]_vars

\* the flag is false and the utterance of the listen call that was under way
\* is being recorded
C7_Witness ==
    /\ ~running
    /\ pc = "idle"
    /\ apc = "show_read"
    /\ atext = "selam"
    /\ Len(notes) > 0

\* C8: a switch of the language selector sets self.language to the tag of
\* the selected entry and leaves a recognition call in flight alone; every
\* OCR call and every speech recognition call that starts uses the language
\* set at that moment.
C8_LanguageSwitch ==
    [][/\ LanguageSwitched =>
             /\ language' = (IF language_spinner' = "English" THEN "en-US" ELSE "am-ET")
             /\ req_lang' = req_lang
             /\ lang_code' = lang_code
             /\ apc' = apc
             /\ pc' = pc
       /\ language' # language => LanguageSwitched \/ pc = "load_config"
       /\ (pc = "cam_read" /\ pc' \in {"cam_save", "cam_render"}) =>
             lang_code' = (IF language = "am-ET" THEN "amh" ELSE "eng")
       /\ (apc = "listen" /\ apc' = "recognizing") => req_lang' = language
       /\ (apc = "recognizing" /\ apc' = "recognizing") => req_lang' = req_lang]_vars

\* the selector was switched to English while a call made with am-ET is in
\* flight
C8_Witness ==
    /\ apc = "recognizing"
    /\ req_lang = "am-ET"
    /\ language_spinner = "English"
    /\ language = "en-US"

\* C9: the speech loop never ends, and while the running flag stays true a
\* listen attempt begins again and again: in every behaviour of the fair
\* specification, infinitely often the thread is in listen, or the flag is
\* false, or the thread was never started.
C9_LoopNeverExits == []<>(apc = "none" \/ ~running \/ apc = "listen")

\* the loop is handling an exception other than the two of the recognizer
C9_Witness ==
    /\ apc = "except"
    /\ aexc.kind = "Exception"
    /\ running

\* C10: when recognize_google raises RequestError no event is produced, and
\* the except clause shows "Audio Error: ..." on the results surface, leaves
\* the notes file alone and goes back to the head of the loop.
C10_ServiceError ==
    [][/\ (apc = "recognizing" /\ aexc'.kind = "RequestError") =>
             /\ apc' = "except"
             /\ events' = events
             /\ notes' = notes
             /\ result_label' = result_label
       /\ (AudioStepFrom("except") /\ aexc.kind = "RequestError") =>
             /\ apc' = "check"
             /\ result_label' = Widget("Audio Error: " \o aexc.msg)
             /\ events' = events
             /\ notes' = notes]_vars

\* the except clause of RequestError is about to run
C10_Witness ==
    /\ apc = "except"
    /\ aexc.kind = "RequestError"

\* C11: when recognize_google raises UnknownValueError no event is produced,
\* and the except clause goes back to the head of the loop with the notes
\* file and the results surface as they were: no line, no message.
C11_NotUnderstood ==
    [][/\ (apc = "recognizing" /\ aexc'.kind = "UnknownValueError") =>
             /\ apc' = "except"
             /\ events' = events
             /\ notes' = notes
             /\ result_label' = result_label
       /\ (AudioStepFrom("except") /\ aexc.kind = "UnknownValueError") =>
             /\ apc' = "check"
             /\ result_label' = result_label
             /\ events' = events
             /\ notes' = notes]_vars

\* the except clause of UnknownValueError is about to run while the results
\* surface shows an earlier event
C11_Witness ==
    /\ apc = "except"
    /\ aexc.kind = "UnknownValueError"
    /\ result_label.text # ""
    /\ Len(notes) > 0

\* C12: a tick of update_camera that reads a frame whose text is empty
\* after strip() produces no event and leaves the notes file and the results
\* surface as they were, and the frame still becomes the displayed image.
C12_EmptyOcrText ==
    [][/\ (pc = "cam_read" /\ frame' # NoFrame /\ Strip(OcrOutput(frame')) = "") =>
             /\ pc' = "cam_render"
             /\ events' = events
             /\ notes' = notes
             /\ result_label' = result_label
       /\ (pc = "cam_render" /\ ctext = "" /\ pc' # pc) =>
             /\ texture' = frame
             /\ frame \in Frames
             /\ events' = events
             /\ notes' = notes
             /\ result_label' = result_label]_vars

\* a frame with no text is about to be rendered over the frame of an earlier
\* tick that had text
C12_Witness ==
    /\ pc = "cam_render"
    /\ frame = "wall"
    /\ ctext = ""
    /\ texture = "sign"
    /\ Len(notes) > 0
    /\ result_label.text # ""

\* the positions of the speech thread inside play_tts
InPlayTts == apc \in {"tts", "tts_play", "tts_remove"}

\* a step of the timer callback
CameraStep == pc \in {"cam_read", "cam_save", "cam_show_read", "cam_show_write",
                       "cam_render"} /\ pc' # pc

\* C13: play_tts is called once for an Audio event exactly when tts_enabled
\* is true; the call is made by the step that assigns the results surface,
\* which follows save_note; play_tts returns to the head of the loop, so the
\* next listen begins after it; and no step of update_camera calls it.
C13_SpeakOncePerAudioEvent ==
    [][/\ AudioSaves => apc' = "show_read"
       /\ AudioStepFrom("show_read") => apc' = "show_write"
       /\ AudioShows => IF tts_enabled THEN apc' = "tts" ELSE apc' = "check"
       /\ (~InPlayTts /\ InPlayTts') =>
             (AudioShows /\ tts_enabled /\ apc' = "tts" /\ atext' = atext)
       /\ (InPlayTts /\ apc' # apc) =>
             \/ apc = "tts" /\ apc' \in {"tts_play", "check", "ended"}
             \/ apc = "tts_play" /\ apc' \in {"tts_remove", "check", "ended"}
             \/ apc = "tts_remove" /\ apc' \in {"check", "ended"}
       /\ (apc # "listen" /\ apc' = "listen") => apc = "check"
       /\ CameraStep => (apc' = apc /\ UNCHANGED ttsState)]_vars

\* play_tts has just been called for an Audio event whose line is in the
\* notes file and whose block leads the results surface
C13_Witness ==
    /\ apc = "tts"
    /\ tts_enabled
    /\ atext = "selam"
    /\ Len(notes) > 0
    /\ notes[Len(notes)] = NoteLine(0, "Audio", "selam")
    /\ NewestBlock(result_label, "Audio", "selam")

\* the text that source, text and the content read before make
Recorded(source, text, b) == source \o " Text:\n" \o text \o "\n\n" \o b

\* C14: recording an event reads the results surface and keeps the first
\* 200 characters of what it shows, b, and then assigns the source label,
\* the text, a blank line and those characters; so right after a record the
\* surface is no longer than label, text and separators plus 200.
C14_PrependKeepsWindow ==
    [][/\ AudioStepFrom("show_read") =>
             /\ Len(result_label.text) <= ResultsWindow => aprev' = result_label.text
             /\ Len(result_label.text) > ResultsWindow =>
                   aprev' = SubSeq(result_label.text, 1, ResultsWindow)
       /\ (pc = "cam_show_read" /\ pc' # pc) =>
             /\ Len(result_label.text) <= ResultsWindow => cprev' = result_label.text
             /\ Len(result_label.text) > ResultsWindow =>
                   cprev' = SubSeq(result_label.text, 1, ResultsWindow)
       /\ AudioShows =>
             /\ result_label'.text = Recorded("Audio", atext, aprev)
             /\ Len(result_label'.text) <= Len("Audio Text:\n") + Len(atext) + 2 + ResultsWindow
       /\ CameraShows =>
             /\ result_label'.text = Recorded("Camera", ctext, cprev)
             /\ Len(result_label'.text) <= Len("Camera Text:\n") + Len(ctext) + 2 + ResultsWindow]_vars

\* an Audio event was recorded over a message longer than the window: the
\* surface shows the block and exactly 200 characters of the message
C14_Witness ==
    /\ apc \in {"check", "tts"}
    /\ result_label.text =
          Recorded("Audio", "selam", SubSeq("Camera Error: " \o TesseractFailed, 1, ResultsWindow))
    /\ Len(result_label.text) = Len("Audio Text:\n") + 5 + 2 + ResultsWindow

\* line is a whole line of the notes file for an event of source with text
WholeLine(line, source, text) ==
    \E t \in Times :
       line = "[" \o strftime(t) \o "] " \o source \o ": " \o text \o "\n"

\* C15: whatever the interleaving of update_camera and the speech thread,
\* the notes file changes only by one whole line added at its end.  The line
\* is added by the pipeline of its source, for the one event that pipeline
\* has produced and not yet saved: a pipeline produces an event only when it
\* has none in flight and keeps the event's text until it has saved it, so
\* the lines of a source are in the order of its events.
C15_NotesAppendOnly ==
    [][/\ notes' # notes =>
             /\ Len(notes') = Len(notes) + 1
             /\ SubSeq(notes', 1, Len(notes)) = notes
             /\ \/ CameraSaves /\ WholeLine(notes'[Len(notes')], "Camera", ctext)
                \/ AudioSaves /\ WholeLine(notes'[Len(notes')], "Audio", atext)
       /\ events' # events =>
             \/ pc = "cam_read" /\ pc' = "cam_save" /\ ctext' # "" /\ apc' = apc
             \/ apc = "recognizing" /\ apc' = "save" /\ atext' # "" /\ pc' = pc
       /\ (pc = "cam_save" /\ pc' = pc) => ctext' = ctext
       /\ (apc = "save" /\ apc' = apc) => atext' = atext
       /\ CameraSaves => pc' = "cam_show_read"
       /\ AudioSaves => apc' = "show_read"]_vars

\* the line of an Audio event and then the line of a Camera event are in the
\* notes file
C15_Witness ==
    /\ Len(notes) = 2
    /\ WholeLine(notes[1], "Audio", "selam")
    /\ WholeLine(notes[2], "Camera", "HELLO")

\* the attribute of the application that holds the configuration field key
Field(key) ==
    CASE key = "camera_index" -> camera_index
      [] key = "language" -> language
      [] key = "notes_file" -> notes_file
      [] key = "tts_enabled" -> tts_enabled

\* C16: load_config on a file that exists and parses leaves each of the four
\* fields equal to the document's value when the document has the key and
\* to the default when it has not; nothing else changes (the file stays as
\* it is, the process goes on), so a key that is not one of the four has no
\* effect.
C16_LoadYieldsDocumentOrDefault ==
    [][(pc = "load_config" /\ configFile.kind = "json") =>
          /\ \A key \in ConfigKeys :
                IF key \in DOMAIN configFile.doc
                THEN Field(key)' = configFile.doc[key]
                ELSE Field(key)' = DEFAULT_CONFIG[key]
          /\ configFile' = configFile
          /\ pc' = "check_dependencies"
          /\ UNCHANGED <<crash_site, camera, running, widgets, notes>>]_vars

\* a document with two of the keys, not at their defaults, and an unknown
\* key has been loaded
C16_Witness ==
    /\ pc = "check_dependencies"
    /\ configFile.kind = "json"
    /\ DOMAIN configFile.doc = {"language", "tts_enabled", "theme"}
    /\ language = "en-US"
    /\ tts_enabled = TRUE
    /\ notes_file = "notes.txt"
    /\ camera_index = 0

\* C17 as stated: the prepend needs no lock: when the two pipelines record
\* concurrently neither update is lost.  A record that assigns the results
\* surface while it shows the block of the other pipeline's event, within
\* the window of 200 characters, leaves its own block followed by that one.
C17_NoLostUpdate ==
    [][/\ (AudioShows /\ NewestBlock(result_label, "Camera", "HELLO")
                      /\ Len(result_label.text) <= ResultsWindow) =>
             result_label'.text = Recorded("Audio", atext, result_label.text)
       /\ (CameraShows /\ NewestBlock(result_label, "Audio", "selam")
                       /\ Len(result_label.text) <= ResultsWindow) =>
             result_label'.text = Recorded("Camera", ctext, result_label.text)]_vars

\* C18 as stated: the speech pipeline starts stopped: while the audio button
\* still has the label build gave it, which offers to start audio (no press
\* yet), the running flag is false and the speech thread has not gone past
\* the check of the flag.
C18_StartsStopped ==
    (audio_btn.exists /\ audio_btn.text = "Start Audio") =>
        (~running /\ apc = "check")

\* the tag of the recognition language that a synthesis language stands for
TagOf(lang) == IF lang = "am" THEN "am-ET" ELSE "en-US"

\* C19 as stated: the language play_tts synthesizes an event's text in is
\* the one of the tag passed to recognize_google for that utterance, also
\* when the selector is switched in between.
C19_TtsLanguageOfUtterance ==
    (apc = "tts_play" /\ atext # "") => TagOf(tts_lang) = req_lang

\* C20 as stated: when play_tts returns, after playing to the end or after
\* a swallowed failure, no file the call created is left: a call that
\* returns before it has a file name leaves the directory as it was, and a
\* call that returns later has removed its file.
C20_NoTempFileLeft ==
    [][(InPlayTts /\ apc' = "check") =>
          IF apc = "tts"
          THEN tmp_files' = tmp_files
          ELSE audio_file \notin tmp_files']_vars

====
